---- MODULE Spec2Model ----
(***************************************************************************)
(* Morphological min/max filters of burn-vision                            *)
(* (crates/burn-vision/src/backends/cpu/morphology/filter.rs):             *)
(* the row filter, the column filter, the generic filter and the           *)
(* extraction of tap coordinates from a structuring element.               *)
(*                                                                         *)
(* Memory is modelled as functions from indices to pixel values.  A        *)
(* destination buffer carries, next to its contents, a log of the values   *)
(* stored at each index.  A SIMD vector of n lanes is a function on        *)
(* 0..n-1; a group of g vectors at x, x+lanes, ... is one vector of        *)
(* g*lanes lanes, the operator acting lane by lane.                        *)
(***************************************************************************)
EXTENDS Integers, Sequences, FiniteSets, TLC

\* ------------------------------------------------------------------ bounds
MaxVal   == 3      \* pixel values are 0..MaxVal
MaxWidth == 7      \* elements per output row
MaxCount == 5      \* output rows of one call
MaxKsize == 3      \* taps of a 1-D kernel

\* lane counts T::lanes::<S>() of the modelled targets; 16 lanes leave rows of
\* up to seven elements to the scalar tail
LaneCounts == {1, 2, 4, 16}
Operators  == {"min", "max"}
Values     == 0..MaxVal
\* dst_step - row length: output rows back to back, or a gap between them
Pads       == {0, 1}

VARIABLES
    opr,        \* the operator type parameter: "min" (MinOp) or "max" (MaxOp)
    lanes,      \* T::lanes::<S>()
    ksize,      \* self.ksize of the row / column filter
    anchor,     \* self.anchor
    width,      \* argument width
    ch,         \* argument ch
    count,      \* argument count
    dst_step,   \* argument dst_step
    src,        \* source rows: src[r][c]
    dst,        \* destination buffer contents
    wlog,       \* wlog[i]: the set of values stored at dst[i] by the call
    pc,         \* position of the running call
    x0,         \* boundary returned by the vector phase (i0 in the row filter)
    x,          \* column cursor
    y,          \* source row index
    cnt,        \* the mutable row counter (mut count)
    d,          \* destination offset of the current output row
    k,          \* channel index of the row filter's scalar phase
    kernel,     \* the mask given to MorphFilter::new
    coords,     \* self.coords of the generic filter
    ptrs,       \* self.ptrs of the generic filter: <<source row, offset>>
    mid,        \* rows written by the row pass of the separable composition
    dst2,       \* destination of the second of two computations compared
    anchor2,    \* self.anchor of a second filter instance
    coords2,    \* self.coords of a second filter instance
    calls       \* MorphFilter::apply calls entered on the filter instance

vars == <<opr, lanes, ksize, anchor, width, ch, count, dst_step, src, dst,
          wlog, pc, x0, x, y, cnt, d, k, kernel, coords, ptrs, mid, dst2,
          anchor2, coords2, calls>>

argvars == <<opr, lanes, ksize, anchor, width, ch, count, dst_step, src,
             calls>>
genvars == <<kernel, coords, ptrs>>
twinvars == <<anchor2, coords2>>
sepvars == <<mid, dst2, anchor2, coords2>>

\* the one element of a one-element set: Only({e : a \in {a_}}) is e with a
\* standing for the value of a_, computed once
Only(S) == CHOOSE e \in S : TRUE

\* ------------------------------------------------------------- operators
\* MinMax::min / MinMax::max on a totally ordered element type
ScalarApply(op, a_, b_) ==
    Only({
    IF op = "min" THEN (IF b < a THEN b ELSE a)
                  ELSE (IF b > a THEN b ELSE a)
    : a \in {a_}, b \in {b_}})

\* VecApply with lane l of a combined with the next lane of b
VecApply_Crossed(op, a_, b_) ==
    Only({
    [l \in DOMAIN a |->
        LET bl == b[(l + 1) % Cardinality(DOMAIN a)]
        IN  IF op = "min" THEN (IF bl < a[l] THEN bl ELSE a[l])
                          ELSE (IF bl > a[l] THEN bl ELSE a[l])]
    : a \in {a_}, b \in {b_}})

\* T::vmin / T::vmax: lane l of the result depends on lane l of a and b
VecApply(op, a_, b_) ==
    Only({
    [l \in DOMAIN a |-> IF op = "min" THEN (IF b[l] < a[l] THEN b[l] ELSE a[l])
                                      ELSE (IF b[l] > a[l] THEN b[l] ELSE a[l])]
    : a \in {a_}, b \in {b_}})

\* vload / vxload / vload_low: n consecutive elements of row starting at i
VLoad(row, i, n) == [l \in 0..(n - 1) |-> row[i + l]]

\* a destination buffer of n elements holding its previous contents
NewMem(n) == [v |-> [i \in 0..(n - 1) |-> 0], w |-> [i \in 0..(n - 1) |-> {}]]

\* dst[i] = val
Store(m_, i, val_) ==
    Only({
    [v |-> [m.v EXCEPT ![i] = val], w |-> [m.w EXCEPT ![i] = @ \cup {val}]]
    : m \in {m_}, val \in {val_}})

\* vstore / vstore_low of the lanes of vec at dst + base
VStore(m_, base, vec_) ==
    Only({
    [v |-> [i \in DOMAIN m.v |->
              IF (i - base) \in DOMAIN vec THEN vec[i - base] ELSE m.v[i]],
     w |-> [i \in DOMAIN m.w |->
              IF (i - base) \in DOMAIN vec THEN m.w[i] \cup {vec[i - base]}
                                           ELSE m.w[i]]]
    : m \in {m_}, vec \in {vec_}})

\* ----------------------------------------------------------- source images
Ramp(R, C, a, b) ==
    [r \in 0..(R - 1) |-> [c \in 0..(C - 1) |-> (a * r + b * c) % (MaxVal + 1)]]

Impulse(R, C, r0, c0, bg, v) ==
    [r \in 0..(R - 1) |-> [c \in 0..(C - 1) |->
        IF r = r0 /\ c = c0 THEN v ELSE bg]]

\* the source images of R rows and C columns the calls are run on: ramps, and
\* images of one pixel that decides every reduction whose window holds it
Images(R, C, op) ==
    {Ramp(R, C, ab[1], ab[2]) : ab \in {<<1, 2>>, <<3, 1>>}}
    \cup {Impulse(R, C, r0, c0, IF op = "min" THEN MaxVal ELSE 0,
                              IF op = "min" THEN 0 ELSE MaxVal) :
            r0 \in 0..(R - 1), c0 \in 0..(C - 1)}

\* the reduction the filters are specified by: the least (greatest) of S
Reduce(op, S) ==
    IF op = "min" THEN CHOOSE m \in S : \A v \in S : m <= v
                  ELSE CHOOSE m \in S : \A v \in S : m >= v

\* the arguments of the running call, as passed to the phases
P == [op |-> opr, lanes |-> lanes, ksize |-> ksize, anchor |-> anchor,
      width |-> width, ch |-> ch, dst_step |-> dst_step]

Mem == [v |-> dst, w |-> wlog]

\* ============================================================ column filter
\* for k in k..ksize: s = Op::apply(s, vload(src[y + k].add(x)))
RECURSIVE ColVecFold(_, _, _, _, _, _)
ColVecFold(p, s_, rows, yy, kk, cx) ==
    Only({
    IF kk >= p.ksize THEN s
    ELSE ColVecFold(p,
             VecApply(p.op, s, VLoad(rows[yy + kk], cx, Cardinality(DOMAIN s))),
             rows, yy, kk + 1, cx)
    : s \in {s_}})

\* Row 1 and Row 2 of one vector group of the pairs-of-rows loop: s is the
\* fold of rows y+1..y+ksize-1
ColVecPairStore(p, rows, m_, dd, yy, cx, n, s_) ==
    Only({
    VStore(VStore(m, dd + cx, VecApply(p.op, s, VLoad(rows[yy], cx, n))),
           dd + p.dst_step + cx,
           VecApply(p.op, s, VLoad(rows[yy + p.ksize], cx, n)))
    : m \in {m_}, s \in {s_}})

\* one vector group of the pairs-of-rows loop: rows y+1..y+ksize-1 are folded
\* once and combined with row y (Row 1) and with row y+ksize (Row 2)
ColVecPairChunk(p, rows, m_, dd, yy, cx, n) ==
    Only({
    ColVecPairStore(p, rows, m, dd, yy, cx, n,
        ColVecFold(p, VLoad(rows[yy + 1], cx, n), rows, yy, 2, cx))
    : m \in {m_}})

\* one vector group of the single-row loop
ColVecSingleChunk(p, rows, m_, dd, yy, cx, n) ==
    Only({
    VStore(m, dd + cx, ColVecFold(p, VLoad(rows[yy], cx, n), rows, yy, 1, cx))
    : m \in {m_}})

ColVecChunk(pairs, p, rows, m_, dd, yy, cx, n) ==
    Only({
    IF pairs THEN ColVecPairChunk(p, rows, m, dd, yy, cx, n)
             ELSE ColVecSingleChunk(p, rows, m, dd, yy, cx, n)
    : m \in {m_}})

\* while x as isize <= width - 4 * lanes as isize { ...; x += 4 * lanes }
RECURSIVE ColVecQuads(_, _, _, _, _, _, _)
ColVecQuads(pairs, p, rows, m_, dd, yy, cx) ==
    Only({
    IF cx <= p.width - 4 * p.lanes
    THEN ColVecQuads(pairs, p, rows,
             ColVecChunk(pairs, p, rows, m, dd, yy, cx, 4 * p.lanes),
             dd, yy, cx + 4 * p.lanes)
    ELSE [m |-> m, x |-> cx]
    : m \in {m_}})

\* if x as isize <= width - n as isize { one group of n lanes; x += n }
ColVecGroup(pairs, p, rows, q_, dd, yy, n) ==
    Only({
    IF q.x <= p.width - n
    THEN [m |-> ColVecChunk(pairs, p, rows, q.m, dd, yy, q.x, n), x |-> q.x + n]
    ELSE q
    : q \in {q_}})

\* ColVecRow without x = 0: the rows after the first start where the cursor
\* was left, at the boundary the groups of 4, 2, 1 and half a vector reach
ColVecRow_NoRestart(pairs, p, rows, m_, dd, yy) ==
    Only({
    ColVecGroup(pairs, p, rows,
      ColVecGroup(pairs, p, rows,
        ColVecGroup(pairs, p, rows,
          ColVecQuads(pairs, p, rows, m, dd, yy,
            IF yy = 0 THEN 0
            ELSE ColVecGroup(pairs, p, rows,
                   ColVecGroup(pairs, p, rows,
                     ColVecGroup(pairs, p, rows,
                       ColVecQuads(pairs, p, rows, m, dd, yy, 0),
                       dd, yy, 2 * p.lanes),
                     dd, yy, p.lanes),
                   dd, yy, p.lanes \div 2).x),
          dd, yy, 2 * p.lanes),
        dd, yy, p.lanes),
      dd, yy, p.lanes \div 2)
    : m \in {m_}})

\* the body of one iteration of an outer loop of MorphColumnVec::apply:
\* x = 0, then groups of 4, 2, 1 and half a vector
ColVecRow(pairs, p, rows, m_, dd, yy) ==
    Only({
    ColVecGroup(pairs, p, rows,
      ColVecGroup(pairs, p, rows,
        ColVecGroup(pairs, p, rows,
          ColVecQuads(pairs, p, rows, m, dd, yy, 0),
          dd, yy, 2 * p.lanes),
        dd, yy, p.lanes),
      dd, yy, p.lanes \div 2)
    : m \in {m_}})

\* ColFold with one row more
RECURSIVE ColFold_ExtraTap(_, _, _, _, _, _)
ColFold_ExtraTap(p, s_, rows, yy, kk, cx) ==
    Only({
    IF kk > p.ksize THEN s
    ELSE ColFold_ExtraTap(p, ScalarApply(p.op, s, rows[yy + kk][cx]), rows, yy,
                          kk + 1, cx)
    : s \in {s_}})

\* the scalar tail of MorphColumnFilter::apply at one column
RECURSIVE ColFold(_, _, _, _, _, _)
ColFold(p, s_, rows, yy, kk, cx) ==
    Only({
    IF kk >= p.ksize THEN s
    ELSE ColFold(p, ScalarApply(p.op, s, rows[yy + kk][cx]), rows, yy, kk + 1,
                 cx)
    : s \in {s_}})

\* Row 1 and Row 2 of one column of the pairs-of-rows loop: s0 is the fold of
\* rows y+1..y+ksize-1
ColPairStore(p, rows, m_, dd, yy, cx, s0_) ==
    Only({
    Store(Store(m, dd + cx, ScalarApply(p.op, s0, rows[yy][cx])),
          dd + p.dst_step + cx,
          ScalarApply(p.op, s0, rows[yy + p.ksize][cx]))
    : m \in {m_}, s0 \in {s0_}})

ColElem(pairs, p, rows, m_, dd, yy, cx) ==
    Only({
    IF pairs
    THEN ColPairStore(p, rows, m, dd, yy, cx,
                      ColFold(p, rows[yy + 1][cx], rows, yy, 2, cx))
    ELSE Store(m, dd + cx, ColFold(p, rows[yy][cx], rows, yy, 1, cx))
    : m \in {m_}})

\* while x as isize <= width - 4 { four columns; x += 4 }
RECURSIVE ColQuads(_, _, _, _, _, _, _)
ColQuads(pairs, p, rows, m_, dd, yy, cx) ==
    Only({
    IF cx <= p.width - 4
    THEN ColQuads(pairs, p, rows,
             ColElem(pairs, p, rows,
               ColElem(pairs, p, rows,
                 ColElem(pairs, p, rows,
                   ColElem(pairs, p, rows, m, dd, yy, cx),
                   dd, yy, cx + 1),
                 dd, yy, cx + 2),
               dd, yy, cx + 3),
             dd, yy, cx + 4)
    ELSE [m |-> m, x |-> cx]
    : m \in {m_}})

\* while (x as isize) < width { one column; x += 1 }
RECURSIVE ColOnes(_, _, _, _, _, _, _)
ColOnes(pairs, p, rows, m_, dd, yy, cx) ==
    Only({
    IF cx < p.width
    THEN ColOnes(pairs, p, rows, ColElem(pairs, p, rows, m, dd, yy, cx),
                 dd, yy, cx + 1)
    ELSE [m |-> m, x |-> cx]
    : m \in {m_}})

\* the single columns, entered with the state q the loop of four left
ColOnesAfter(pairs, p, rows, q_, dd, yy) ==
    Only({
    ColOnes(pairs, p, rows, q.m, dd, yy, q.x)
    : q \in {q_}})

\* the two inner loops of one outer iteration, entered with the cursor at cx
ColRow(pairs, p, rows, m_, dd, yy, cx) ==
    Only({
    ColOnesAfter(pairs, p, rows, ColQuads(pairs, p, rows, m, dd, yy, cx), dd, yy)
    : m \in {m_}})

\* the loop variables of a running call
Frame == [m |-> Mem, x |-> x, y |-> y, cnt |-> cnt, d |-> d]

SetFrame(f_) ==
    \E f \in {f_} :
        /\ dst' = f.m.v /\ wlog' = f.m.w
        /\ x' = f.x /\ y' = f.y /\ cnt' = f.cnt /\ d' = f.d

\* ColAdvance with the source row index advanced by one row whatever n is
ColAdvance_OneRow(p, q_, f_, n) ==
    Only({
    [m |-> q.m, x |-> q.x, y |-> f.y + 1, cnt |-> f.cnt - n,
     d |-> f.d + p.dst_step * n]
    : q \in {q_}, f \in {f_}})

\* ColAdvance that leaves the row counter, the row index and the destination
\* offset as they were
ColAdvance_NoStep(p, q_, f_, n) ==
    Only({
    [m |-> q.m, x |-> q.x, y |-> f.y, cnt |-> f.cnt, d |-> f.d]
    : q \in {q_}, f \in {f_}})

\* the end of an outer iteration that wrote n rows and left q:
\* y += n; count -= n; dst = dst.add(dst_step * n)
ColAdvance(p, q_, f_, n) ==
    Only({
    [m |-> q.m, x |-> q.x, y |-> f.y + n, cnt |-> f.cnt - n,
     d |-> f.d + p.dst_step * n]
    : q \in {q_}, f \in {f_}})

\* MorphColumnVec::apply, one iteration of while count > 1 && ksize > 1
ColVecPairsStep(p, rows, f_) ==
    Only({
    ColAdvance(p, ColVecRow(TRUE, p, rows, f.m, f.d, f.y), f, 2)
    : f \in {f_}})

\* MorphColumnVec::apply, one iteration of while count > 0
ColVecSingleStep(p, rows, f_) ==
    Only({
    ColAdvance(p, ColVecRow(FALSE, p, rows, f.m, f.d, f.y), f, 1)
    : f \in {f_}})

\* MorphColumnFilter::apply, one iteration of while ksize > 1 && count > 1:
\* the inner loops go on from the cursor the previous iteration left
ColPairsStep(p, rows, f_) ==
    Only({
    ColAdvance(p, ColRow(TRUE, p, rows, f.m, f.d, f.y, f.x), f, 2)
    : f \in {f_}})

\* MorphColumnFilter::apply, one iteration of while count > 0: x = x0 first
ColSingleStep(p, rows, f_, xv) ==
    Only({
    ColAdvance(p, ColRow(FALSE, p, rows, f.m, f.d, f.y, xv), f, 1)
    : f \in {f_}})

\* the two loops of MorphColumnVec::apply run to their end
RECURSIVE ColVecRun(_, _, _)
ColVecRun(p, rows, f_) ==
    Only({
    IF f.cnt > 1 /\ p.ksize > 1
    THEN ColVecRun(p, rows, ColVecPairsStep(p, rows, f))
    ELSE IF f.cnt > 0 THEN ColVecRun(p, rows, ColVecSingleStep(p, rows, f))
    ELSE f
    : f \in {f_}})

\* the two loops of MorphColumnFilter::apply run to their end
RECURSIVE ColRun(_, _, _, _)
ColRun(p, rows, f_, xv) ==
    Only({
    IF p.ksize > 1 /\ f.cnt > 1
    THEN ColRun(p, rows, ColPairsStep(p, rows, f), xv)
    ELSE IF f.cnt > 0 THEN ColRun(p, rows, ColSingleStep(p, rows, f, xv), xv)
    ELSE f
    : f \in {f_}})

\* the scalar loops of MorphColumnFilter::apply, entered with the frame v
\* MorphColumnVec::apply left: x0 = x = v.x
ColScalarRun(p, rows, v_, n) ==
    Only({
    ColRun(p, rows, [m |-> v.m, x |-> v.x, y |-> 0, cnt |-> n, d |-> 0], v.x)
    : v \in {v_}})

\* MorphColumnFilter::apply as one step: the destination it leaves
MorphColumnFilterApply(p, rows, m_, n) ==
    Only({
    ColScalarRun(p, rows,
        ColVecRun(p, rows, [m |-> m, x |-> 0, y |-> 0, cnt |-> n, d |-> 0]),
        n).m
    : m \in {m_}})

\* ---- the call, one action per iteration of an outer loop
ColCalls ==
    {c \in [op : Operators, lanes : LaneCounts, ksize : 1..MaxKsize,
            anchor : 0..MaxKsize, width : 0..MaxWidth,
            count : 0..MaxCount, pad : Pads] : c.anchor = c.ksize \div 2}

InitCol ==
    \E c \in ColCalls :
      \E img \in Images(c.count + c.ksize - 1, c.width, c.op) :
        /\ opr = c.op /\ lanes = c.lanes /\ ksize = c.ksize
        /\ anchor = c.anchor /\ width = c.width /\ ch = 1
        /\ count = c.count /\ dst_step = c.width + c.pad
        /\ src = img
        /\ dst = NewMem((c.count + 1) * (c.width + c.pad)).v
        /\ wlog = NewMem((c.count + 1) * (c.width + c.pad)).w
        /\ pc = "col_vec" /\ x0 = 0 /\ x = 0 /\ y = 0 /\ cnt = c.count /\ d = 0
        /\ k = 0
        /\ kernel = <<>> /\ coords = <<>> /\ ptrs = <<>>
        /\ mid = <<>> /\ dst2 = <<>>
        /\ anchor2 = 0 /\ coords2 = <<>> /\ calls = 0

\* MorphColumnVec::apply: while count > 1 && ksize > 1 { ... }
ColVecPairs ==
    /\ pc = "col_vec"
    /\ cnt > 1 /\ ksize > 1
    /\ SetFrame(ColVecPairsStep(P, src, Frame))
    /\ UNCHANGED <<argvars, genvars, sepvars, pc, x0, k>>

\* MorphColumnVec::apply: while count > 0 { ... }
ColVecSingle ==
    /\ pc = "col_vec"
    /\ ~(cnt > 1 /\ ksize > 1) /\ cnt > 0
    /\ SetFrame(ColVecSingleStep(P, src, Frame))
    /\ UNCHANGED <<argvars, genvars, sepvars, pc, x0, k>>

\* MorphColumnVec::apply returns x; MorphColumnFilter::apply sets up its loops
\* (d = 0, x = x0, y = 0) with its own copy of count
ColVecReturn ==
    /\ pc = "col_vec"
    /\ ~(cnt > 1 /\ ksize > 1) /\ cnt = 0
    /\ x0' = x /\ d' = 0 /\ x' = x /\ y' = 0 /\ cnt' = count
    /\ pc' = "col_scalar"
    /\ UNCHANGED <<argvars, genvars, sepvars, dst, wlog, k>>

\* MorphColumnFilter::apply: while ksize > 1 && count > 1 { ... }
ColPairs ==
    /\ pc = "col_scalar"
    /\ ksize > 1 /\ cnt > 1
    /\ SetFrame(ColPairsStep(P, src, Frame))
    /\ UNCHANGED <<argvars, genvars, sepvars, pc, x0, k>>

\* MorphColumnFilter::apply: while count > 0 { x = x0; ... }
ColSingle ==
    /\ pc = "col_scalar"
    /\ ~(ksize > 1 /\ cnt > 1) /\ cnt > 0
    /\ SetFrame(ColSingleStep(P, src, Frame, x0))
    /\ UNCHANGED <<argvars, genvars, sepvars, pc, x0, k>>

ColReturn ==
    /\ pc = "col_scalar"
    /\ ~(ksize > 1 /\ cnt > 1) /\ cnt = 0
    /\ pc' = "col_done"
    /\ UNCHANGED <<argvars, genvars, sepvars, dst, wlog, x0, x, y, cnt, d, k>>

NextCol == ColVecPairs \/ ColVecSingle \/ ColVecReturn
           \/ ColPairs \/ ColSingle \/ ColReturn

SpecCol == InitCol /\ [][NextCol]_vars

\* ---- calls on a source larger than required: src has one row pointer more
\* than the count + ksize - 1 asked for and every row one element more than
\* width.  Element (r, c) is its index r * (width + 1) + c under MaxOp and
\* the last index minus that under MinOp, so that a stored value names the
\* largest source row that went into it, and its column.
LastIndex(c) == (c.count + c.ksize) * (c.width + 1) - 1

IndexImage(c) ==
    [r \in 0..(c.count + c.ksize - 1) |-> [i \in 0..c.width |->
        IF c.op = "max" THEN r * (c.width + 1) + i
        ELSE LastIndex(c) - (r * (c.width + 1) + i)]]

InitColBounds ==
    \E c \in ColCalls :
        /\ opr = c.op /\ lanes = c.lanes /\ ksize = c.ksize
        /\ anchor = c.anchor /\ width = c.width /\ ch = 1
        /\ count = c.count /\ dst_step = c.width + c.pad
        /\ src = IndexImage(c)
        /\ dst = NewMem((c.count + 1) * (c.width + c.pad)).v
        /\ wlog = NewMem((c.count + 1) * (c.width + c.pad)).w
        /\ pc = "col_vec" /\ x0 = 0 /\ x = 0 /\ y = 0 /\ cnt = c.count /\ d = 0
        /\ k = 0
        /\ kernel = <<>> /\ coords = <<>> /\ ptrs = <<>>
        /\ mid = <<>> /\ dst2 = <<>>
        /\ anchor2 = 0 /\ coords2 = <<>> /\ calls = 0

SpecColBounds == InitColBounds /\ [][NextCol]_vars

\* the reduction of column c over source rows r .. r+ksize-1
ColRef(r, c) == Reduce(opr, {src[r + j][c] : j \in 0..(ksize - 1)})

\* C1: after MorphColumnFilter::apply every cell of the count output rows is
\* the reduction of its column over ksize source rows, as a reference that
\* computes one output row at a time gives it
ColumnMatchesReference ==
    pc = "col_done" =>
        \A r \in 0..(count - 1) : \A c \in 0..(width - 1) :
            dst[r * dst_step + c] = ColRef(r, c)

\* ================================================================ row filter
\* RowVecFold with one tap more
RECURSIVE RowVecFold_ExtraTap(_, _, _, _, _)
RowVecFold_ExtraTap(p, s_, row, cx, kk) ==
    Only({
    IF kk > p.ksize * p.ch THEN s
    ELSE RowVecFold_ExtraTap(p,
             VecApply(p.op, s, VLoad(row, cx + kk, Cardinality(DOMAIN s))),
             row, cx, kk + p.ch)
    : s \in {s_}})

\* for k in (from..k_size).step_by(ch): s = Op::apply(s, vxload(src.add(x + k)))
RECURSIVE RowVecFold(_, _, _, _, _)
RowVecFold(p, s_, row, cx, kk) ==
    Only({
    IF kk >= p.ksize * p.ch THEN s
    ELSE RowVecFold(p,
             VecApply(p.op, s, VLoad(row, cx + kk, Cardinality(DOMAIN s))),
             row, cx, kk + p.ch)
    : s \in {s_}})

\* RowVecChunk with the fold started at the tap after the next one
RowVecChunk_SkipTap(p, row, m_, cx, n) ==
    Only({
    VStore(m, cx, RowVecFold(p, VLoad(row, cx, n), row, cx, 2 * p.ch))
    : m \in {m_}})

\* one vector group of MorphRowVec::apply: n lanes at x
RowVecChunk(p, row, m_, cx, n) ==
    Only({
    VStore(m, cx, RowVecFold(p, VLoad(row, cx, n), row, cx, p.ch))
    : m \in {m_}})

\* while x as isize <= width - 4 * lanes as isize { ...; x += 4 * lanes }
RECURSIVE RowVecQuads(_, _, _, _)
RowVecQuads(p, row, m_, cx) ==
    Only({
    IF cx <= p.width * p.ch - 4 * p.lanes
    THEN RowVecQuads(p, row, RowVecChunk(p, row, m, cx, 4 * p.lanes),
                     cx + 4 * p.lanes)
    ELSE [m |-> m, x |-> cx]
    : m \in {m_}})

\* RowVecHalf with the cursor advanced by a whole vector
RowVecHalf_FullStep(p, row, q_) ==
    Only({
    IF q.x <= p.width * p.ch - (p.lanes \div 2)
    THEN [m |-> RowVecChunk(p, row, q.m, q.x, p.lanes \div 2),
          x |-> q.x + p.lanes]
    ELSE q
    : q \in {q_}})

\* if x as isize <= width - lanes as isize / 2: half a vector (vload_low,
\* vstore_low) and x += lanes / 2
RowVecHalf(p, row, q_) ==
    Only({
    IF q.x <= p.width * p.ch - (p.lanes \div 2)
    THEN [m |-> RowVecChunk(p, row, q.m, q.x, p.lanes \div 2),
          x |-> q.x + (p.lanes \div 2)]
    ELSE q
    : q \in {q_}})

\* if x as isize <= width - n as isize { one group of n lanes; x += n }
RowVecGroup(p, row, q_, n) ==
    Only({
    IF q.x <= p.width * p.ch - n
    THEN [m |-> RowVecChunk(p, row, q.m, q.x, n), x |-> q.x + n]
    ELSE q
    : q \in {q_}})

\* MorphRowVec::apply up to its last line: the memory and the cursor x after
\* the groups of 4, 2, 1 and half a vector
RowVecGroups(p, row, m_) ==
    Only({
    RowVecHalf(p, row,
      RowVecGroup(p, row,
        RowVecGroup(p, row, RowVecQuads(p, row, m, 0), 2 * p.lanes),
        p.lanes))
    : m \in {m_}})

\* RowVecResult that returns the cursor as it is
RowVecResult_NoRound(p, q_) ==
    Only({
    [m |-> q.m, x |-> q.x, i0 |-> q.x]
    : q \in {q_}})

\* the last line of MorphRowVec::apply: x - x % ch
RowVecResult(p, q_) ==
    Only({
    [m |-> q.m, x |-> q.x, i0 |-> q.x - (q.x % p.ch)]
    : q \in {q_}})

\* MorphRowVec::apply: returns x - x % ch
RowVecApply(p, row, m_) ==
    Only({
    RowVecResult(p, RowVecGroups(p, row, m))
    : m \in {m_}})

\* RowFold that stops one tap early
RECURSIVE RowFold_StopEarly(_, _, _, _, _, _)
RowFold_StopEarly(p, s_, row, base, j, last_j) ==
    Only({
    IF j >= p.ksize * p.ch - p.ch THEN [m |-> s, last_j |-> last_j]
    ELSE RowFold_StopEarly(p, ScalarApply(p.op, s, row[base + j]), row, base,
                           j + p.ch, j + p.ch)
    : s \in {s_}})

\* for j in (j..k_size).step_by(ch) { m = Scalar::apply(m, src[base + j]);
\* last_j = j + ch }
RECURSIVE RowFold(_, _, _, _, _, _)
RowFold(p, s_, row, base, j, last_j) ==
    Only({
    IF j >= p.ksize * p.ch THEN [m |-> s, last_j |-> last_j]
    ELSE RowFold(p, ScalarApply(p.op, s, row[base + j]), row, base, j + p.ch,
                 j + p.ch)
    : s \in {s_}})

\* width.saturating_sub(ch * 2)
SaturatingSub(a, b) == IF a >= b THEN a - b ELSE 0

\* for i in (i0..width.saturating_sub(ch * 2)).step_by(ch * 2): two outputs of
\* channel kk share the reduction of the taps between them
RECURSIVE RowPairs(_, _, _, _, _, _)
RowPairs(p, row, m_, kk, i, last_i) ==
    Only({
    IF i < SaturatingSub(p.width * p.ch, p.ch * 2)
    THEN LET f  == RowFold(p, row[kk + i + p.ch], row, kk + i, p.ch * 2,
                           p.ch * 2)
             m1 == Store(m, kk + i, ScalarApply(p.op, f.m, row[kk + i]))
             m2 == Store(m1, kk + i + p.ch,
                         ScalarApply(p.op, f.m, row[kk + i + f.last_j]))
         IN  RowPairs(p, row, m2, kk, i + p.ch * 2, i + p.ch * 2)
    ELSE [m |-> m, last_i |-> last_i]
    : m \in {m_}})

\* for i in (last_i..width).step_by(ch): one output of channel kk
RECURSIVE RowOnes(_, _, _, _, _)
RowOnes(p, row, m_, kk, i) ==
    Only({
    IF i < p.width * p.ch
    THEN RowOnes(p, row,
             Store(m, kk + i, RowFold(p, row[kk + i], row, kk + i, p.ch, 0).m),
             kk, i + p.ch)
    ELSE m
    : m \in {m_}})

\* the single outputs of channel kk, entered where the loop of pairs stopped
RowOnesAfter(p, row, q_, kk) ==
    Only({
    RowOnes(p, row, q.m, kk, q.last_i)
    : q \in {q_}})

\* the body of `for k in 0..ch` of MorphRowFilter::apply
RowChannelBody(p, row, m_, kk, i0) ==
    Only({
    RowOnesAfter(p, row, RowPairs(p, row, m, kk, i0, i0), kk)
    : m \in {m_}})

\* RowCopySlice one element short
RowCopySlice_Short(p, row, m_) ==
    Only({
    VStore(m, 0, VLoad(row, 0, p.width * p.ch - 1))
    : m \in {m_}})

\* dst[..width].copy_from_slice(&src[..width]) with width = width * ch
RowCopySlice(p, row, m_) ==
    Only({
    VStore(m, 0, VLoad(row, 0, p.width * p.ch))
    : m \in {m_}})

\* RowIsCopy that also takes the copy path when the anchor is not 0
RowIsCopy_Anchored(p) == p.ksize * p.ch = p.ch \/ p.anchor > 0

\* if k_size == ch
RowIsCopy(p) == p.ksize * p.ch = p.ch

\* for k in kk..ch of MorphRowFilter::apply
RECURSIVE RowChannels(_, _, _, _, _)
RowChannels(p, row, m_, kk, i0) ==
    Only({
    IF kk >= p.ch THEN m
    ELSE RowChannels(p, row, RowChannelBody(p, row, m, kk, i0), kk + 1, i0)
    : m \in {m_}})

\* the scalar phase of MorphRowFilter::apply, entered with what the vector
\* phase returned
RowScalarRun(p, row, q_) ==
    Only({
    RowChannels(p, row, q.m, 0, q.i0)
    : q \in {q_}})

\* MorphRowFilter::apply as one step: the destination it leaves
MorphRowFilterApply(p, row, m_) ==
    Only({
    IF RowIsCopy(p) THEN RowCopySlice(p, row, m)
    ELSE RowScalarRun(p, row, RowVecApply(p, row, m))
    : m \in {m_}})

\* ---- the call: the copy, or the vector phase and one step per channel
MaxCh == 3      \* channels of the row filter

RowCalls ==
    {c \in [op : Operators, lanes : LaneCounts, ksize : 1..MaxKsize,
            anchor : 0..MaxKsize, width : 0..MaxWidth,
            ch : 0..MaxCh] : c.anchor = c.ksize \div 2}

\* the padded source row 5 5 1 4 2 8 3 3: six outputs of a three-tap kernel
PaddedRow == [r \in 0..0 |-> [c \in 0..7 |-> <<5, 5, 1, 4, 2, 8, 3, 3>>[c + 1]]]

\* the source rows of a call: the images of its size and, for a three-tap
\* kernel on six pixels of one channel, the padded row above
RowImages(c) ==
    Images(1, (c.width + c.ksize - 1) * c.ch, c.op)
    \cup (IF c.ksize = 3 /\ c.width = 6 /\ c.ch = 1 THEN {PaddedRow} ELSE {})

InitRow ==
    \E c \in RowCalls :
      \E img \in RowImages(c) :
        /\ opr = c.op /\ lanes = c.lanes /\ ksize = c.ksize
        /\ anchor = c.anchor /\ width = c.width /\ ch = c.ch
        /\ count = 1 /\ dst_step = c.width * c.ch
        /\ src = img
        /\ dst = NewMem(c.width * c.ch + 1).v
        /\ wlog = NewMem(c.width * c.ch + 1).w
        /\ pc = "row_entry" /\ x0 = 0 /\ x = 0 /\ y = 0 /\ cnt = 0 /\ d = 0
        /\ k = 0
        /\ kernel = <<>> /\ coords = <<>> /\ ptrs = <<>>
        /\ mid = <<>> /\ dst2 = <<>>
        /\ anchor2 = 0 /\ coords2 = <<>> /\ calls = 0

\* MorphRowFilter::apply, k_size == ch: copy and return
RowCopy ==
    /\ pc = "row_entry"
    /\ RowIsCopy(P)
    /\ \E m \in {RowCopySlice(P, src[0], Mem)} :
           dst' = m.v /\ wlog' = m.w
    /\ pc' = "row_done"
    /\ UNCHANGED <<argvars, genvars, sepvars, x0, x, y, cnt, d, k>>

\* let i0 = self.vec.apply(simd, src, dst, width, ch)
RowVec ==
    /\ pc = "row_entry"
    /\ ~RowIsCopy(P)
    /\ \E q \in {RowVecApply(P, src[0], Mem)} :
           dst' = q.m.v /\ wlog' = q.m.w /\ x' = q.x /\ x0' = q.i0
    /\ k' = 0
    /\ pc' = "row_scalar"
    /\ UNCHANGED <<argvars, genvars, sepvars, y, cnt, d>>

\* one iteration of for k in 0..ch
RowChannel ==
    /\ pc = "row_scalar"
    /\ k < ch
    /\ \E m \in {RowChannelBody(P, src[0], Mem, k, x0)} :
           dst' = m.v /\ wlog' = m.w
    /\ k' = k + 1
    /\ UNCHANGED <<argvars, genvars, sepvars, pc, x0, x, y, cnt, d>>

RowReturn ==
    /\ pc = "row_scalar"
    /\ k >= ch
    /\ pc' = "row_done"
    /\ UNCHANGED <<argvars, genvars, sepvars, dst, wlog, x0, x, y, cnt, d, k>>

NextRow == RowCopy \/ RowVec \/ RowChannel \/ RowReturn

SpecRow == InitRow /\ [][NextRow]_vars

\* ---- calls on buffers longer than required: src holds one pixel more than
\* the (width + ksize - 1) * ch elements asked for, dst one pixel more than
\* width * ch.  Element i of the source row is i under MaxOp and
\* SrcLen - 1 - i under MinOp, so that a stored value names the largest
\* source index that went into it.
SrcLen(c) == (c.width + c.ksize - 1) * c.ch + c.ch

IndexRow(c) ==
    [r \in 0..0 |-> [i \in 0..(SrcLen(c) - 1) |->
        IF c.op = "max" THEN i ELSE SrcLen(c) - 1 - i]]

InitRowBounds ==
    \E c \in RowCalls :
        /\ c.ch >= 1
        /\ opr = c.op /\ lanes = c.lanes /\ ksize = c.ksize
        /\ anchor = c.anchor /\ width = c.width /\ ch = c.ch
        /\ count = 1 /\ dst_step = c.width * c.ch
        /\ src = IndexRow(c)
        /\ dst = NewMem(c.width * c.ch + c.ch).v
        /\ wlog = NewMem(c.width * c.ch + c.ch).w
        /\ pc = "row_entry" /\ x0 = 0 /\ x = 0 /\ y = 0 /\ cnt = 0 /\ d = 0
        /\ k = 0
        /\ kernel = <<>> /\ coords = <<>> /\ ptrs = <<>>
        /\ mid = <<>> /\ dst2 = <<>>
        /\ anchor2 = 0 /\ coords2 = <<>> /\ calls = 0

SpecRowBounds == InitRowBounds /\ [][NextRow]_vars

\* the reduction of the ksize taps of output position q of the row
RowRef(q) == Reduce(opr, {src[0][q + j * ch] : j \in 0..(ksize - 1)})

\* C3: after MorphRowFilter::apply with ch >= 1 every output position holds the
\* reduction of the ksize source elements of its own channel that start at it
RowMatchesReference ==
    (pc = "row_done" /\ ch >= 1) =>
        \A q \in 0..(width * ch - 1) : dst[q] = RowRef(q)

\* ======================================================= tap coordinates
Point(px, py) == [x |-> px, y |-> py]
Size(w, h) == [width |-> w, height |-> h]

\* CountActive that leaves out the last cell of the slice
CountActive_DropLast(kn) == Cardinality({i \in 1..(Len(kn) - 1) : kn[i]})

\* kernel.iter().filter(|it| it.to_bool()).count(), over the whole slice
CountActive(kn) == Cardinality({i \in 1..Len(kn) : kn[i]})

\* KernelRow with the coordinates of a point swapped
RECURSIVE KernelRow_Swapped(_, _, _, _, _, _)
KernelRow_Swapped(cs, kn, sz, yy, xx, kk) ==
    IF xx >= sz.width THEN [coords |-> cs, k |-> kk]
    ELSE IF kn[yy * sz.width + xx + 1]
         THEN KernelRow_Swapped([cs EXCEPT ![kk + 1] = Point(yy, xx)], kn, sz,
                                yy, xx + 1, kk + 1)
         ELSE KernelRow_Swapped(cs, kn, sz, yy, xx + 1, kk)

\* for (x, _) in krow[..width].iter().enumerate().filter(..) of row yy, from
\* column xx on: coords[k] = Point::new(x, y); k += 1
RECURSIVE KernelRow(_, _, _, _, _, _)
KernelRow(cs, kn, sz, yy, xx, kk) ==
    IF xx >= sz.width THEN [coords |-> cs, k |-> kk]
    ELSE IF kn[yy * sz.width + xx + 1]
         THEN KernelRow([cs EXCEPT ![kk + 1] = Point(xx, yy)], kn, sz, yy,
                        xx + 1, kk + 1)
         ELSE KernelRow(cs, kn, sz, yy, xx + 1, kk)

\* for y in yy..height: the slices &kernel[y * width..] and krow[..width]
\* panic when the kernel is shorter than they need
RECURSIVE KernelRows(_, _, _, _, _)
KernelRows(cs, kn, sz, yy, kk) ==
    IF yy >= sz.height THEN [ok |-> TRUE, coords |-> cs]
    ELSE IF yy * sz.width > Len(kn) \/ sz.width > Len(kn) - yy * sz.width
         THEN [ok |-> FALSE, coords |-> <<>>]
         ELSE LET r == KernelRow(cs, kn, sz, yy, 0, kk)
              IN  KernelRows(r.coords, kn, sz, yy + 1, r.k)

\* process_2d_kernel without the floor nz = 1
process_2d_kernel_NoFloor(kn, sz) ==
    KernelRows([t \in 1..CountActive(kn) |-> Point(0, 0)], kn, sz, 0, 0)

\* process_2d_kernel: ok is FALSE when the call panics
process_2d_kernel(kn, sz) ==
    LET n0 == CountActive(kn)
        nz == IF n0 = 0 THEN 1 ELSE n0
    IN  KernelRows([t \in 1..nz |-> Point(0, 0)], kn, sz, 0, 0)

\* =========================================================== generic filter
\* null()
Null == [row |-> -1, off |-> 0]

\* vxload / vload_low of n elements at ptr.add(i)
GenVLoad(rows, ptr, i, n) == [l \in 0..(n - 1) |-> rows[ptr.row][ptr.off + i + l]]

\* GenVecFold that keeps the vector of the tap loaded last
RECURSIVE GenVecFold_LastWins(_, _, _, _, _, _, _)
GenVecFold_LastWins(p, s_, rows, kp_, t, nz, i) ==
    Only({
    IF t > nz THEN s
    ELSE GenVecFold_LastWins(p,
             GenVLoad(rows, kp[t], i, Cardinality(DOMAIN s)),
             rows, kp, t + 1, nz, i)
    : s \in {s_}, kp \in {kp_}})

\* for sptr in src[1..nz].iter().map(|sptr| sptr.add(i)), from tap t on
RECURSIVE GenVecFold(_, _, _, _, _, _, _)
GenVecFold(p, s_, rows, kp_, t, nz, i) ==
    Only({
    IF t > nz THEN s
    ELSE GenVecFold(p,
             VecApply(p.op, s,
                      GenVLoad(rows, kp[t], i, Cardinality(DOMAIN s))),
             rows, kp, t + 1, nz, i)
    : s \in {s_}, kp \in {kp_}})

\* one vector group of MorphVec::apply: n lanes at i
GenVecChunk(p, rows, kp_, nz, m_, base, i, n) ==
    Only({
    VStore(m, base + i,
           GenVecFold(p, GenVLoad(rows, kp[1], i, n), rows, kp, 2, nz, i))
    : kp \in {kp_}, m \in {m_}})

\* while i as isize <= width - 4 * lanes as isize { ...; i += 4 * lanes }
RECURSIVE GenVecQuads(_, _, _, _, _, _, _, _)
GenVecQuads(p, rows, kp_, nz, m_, base, w, i) ==
    Only({
    IF i <= w - 4 * p.lanes
    THEN GenVecQuads(p, rows, kp, nz,
             GenVecChunk(p, rows, kp, nz, m, base, i, 4 * p.lanes),
             base, w, i + 4 * p.lanes)
    ELSE [m |-> m, i |-> i]
    : kp \in {kp_}, m \in {m_}})

\* if i as isize <= width - n as isize { one group of n lanes; i += n }
GenVecGroup(p, rows, kp_, nz, q_, base, w, n) ==
    Only({
    IF q.i <= w - n
    THEN [m |-> GenVecChunk(p, rows, kp, nz, q.m, base, q.i, n), i |-> q.i + n]
    ELSE q
    : kp \in {kp_}, q \in {q_}})

\* MorphVec::apply on the destination row at base, w elements wide: groups of
\* 4 * lanes, then at most one of 2 * lanes, of lanes and of lanes / 2
MorphVecApply(p, rows, kp_, nz, m_, base, w) ==
    Only({
    GenVecGroup(p, rows, kp, nz,
      GenVecGroup(p, rows, kp, nz,
        GenVecGroup(p, rows, kp, nz,
          GenVecQuads(p, rows, kp, nz, m, base, w, 0),
          base, w, 2 * p.lanes),
        base, w, p.lanes),
      base, w, p.lanes \div 2)
    : kp \in {kp_}, m \in {m_}})

\* GenFold that leaves out the last tap
RECURSIVE GenFold_DropLast(_, _, _, _, _, _, _)
GenFold_DropLast(p, s_, rows, kp_, t, nz, i) ==
    Only({
    IF t >= nz THEN s
    ELSE GenFold_DropLast(p,
             ScalarApply(p.op, s, rows[kp[t].row][kp[t].off + i]),
             rows, kp, t + 1, nz, i)
    : s \in {s_}, kp \in {kp_}})

\* for sptr in kp[1..nz]: s = Op::apply(s, element i of the tap), from tap t
RECURSIVE GenFold(_, _, _, _, _, _, _)
GenFold(p, s_, rows, kp_, t, nz, i) ==
    Only({
    IF t > nz THEN s
    ELSE GenFold(p, ScalarApply(p.op, s, rows[kp[t].row][kp[t].off + i]),
                 rows, kp, t + 1, nz, i)
    : s \in {s_}, kp \in {kp_}})

\* the scalar tail of MorphFilter::apply at position i
GenElem(p, rows, kp_, nz, m_, base, i) ==
    Only({
    Store(m, base + i,
          GenFold(p, rows[kp[1].row][kp[1].off + i], rows, kp, 2, nz, i))
    : kp \in {kp_}, m \in {m_}})

\* while i as isize <= width - 4 { four positions; i += 4 }
RECURSIVE GenQuads(_, _, _, _, _, _, _, _)
GenQuads(p, rows, kp_, nz, m_, base, w, i) ==
    Only({
    IF i <= w - 4
    THEN GenQuads(p, rows, kp, nz,
             GenElem(p, rows, kp, nz,
               GenElem(p, rows, kp, nz,
                 GenElem(p, rows, kp, nz,
                   GenElem(p, rows, kp, nz, m, base, i),
                   base, i + 1),
                 base, i + 2),
               base, i + 3),
             base, w, i + 4)
    ELSE [m |-> m, i |-> i]
    : kp \in {kp_}, m \in {m_}})

\* for i in i..width as usize { one position }
RECURSIVE GenOnes(_, _, _, _, _, _, _, _)
GenOnes(p, rows, kp_, nz, m_, base, w, i) ==
    Only({
    IF i < w
    THEN GenOnes(p, rows, kp, nz, GenElem(p, rows, kp, nz, m, base, i), base,
                 w, i + 1)
    ELSE [m |-> m, i |-> i]
    : kp \in {kp_}, m \in {m_}})

\* TapPointers with the tap's x not scaled by the channel count
TapPointers_NoCh(p, pt, src_off) ==
    [t \in 1..Len(pt) |-> [row |-> src_off + pt[t].y, off |-> pt[t].x]]

\* TapPointers that keeps the addresses of the first output row
TapPointers_Cached(p, pt, src_off) ==
    [t \in 1..Len(pt) |-> [row |-> pt[t].y, off |-> pt[t].x * p.ch]]

\* TapPointers with the taps counted from the anchor of the filter
TapPointers_Anchored(p, pt, src_off) ==
    [t \in 1..Len(pt) |-> [row |-> src_off + pt[t].y + p.anchor.y,
                           off |-> (pt[t].x + p.anchor.x) * p.ch]]

\* kp[k] = src[src_off + pt[k].y].add(pt[k].x * ch), for k in 0..nz
TapPointers(p, pt, src_off) ==
    [t \in 1..Len(pt) |-> [row |-> src_off + pt[t].y, off |-> pt[t].x * p.ch]]

\* the single positions, entered with the state q the loop of four left
GenOnesAfter(p, rows, kp_, nz, q_, base, w) ==
    Only({
    GenOnes(p, rows, kp, nz, q.m, base, w, q.i)
    : kp \in {kp_}, q \in {q_}})

\* the scalar tail of one output row: v is what MorphVec::apply returned
GenRowTail(p, rows, kp_, nz, v_, f_) ==
    Only({
    GenOnesAfter(p, rows, kp, nz,
                 GenQuads(p, rows, kp, nz, v.m, f.d, p.width * p.ch, v.i),
                 f.d, p.width * p.ch)
    : kp \in {kp_}, v \in {v_}, f \in {f_}})

\* GenRowFrame with src_off left as it was
GenRowFrame_NoSrcStep(p, kp_, v_, o_, f_) ==
    Only({
    [m |-> o.m, kp |-> kp, i0 |-> v.i, x |-> o.i, y |-> f.y,
     cnt |-> f.cnt - 1, d |-> f.d + p.dst_step]
    : kp \in {kp_}, v \in {v_}, o \in {o_}, f \in {f_}})

\* the frame after one output row: kp is the scratch array, i0 the value
\* MorphVec::apply returned, o the state after the scalar tail
GenRowFrame(p, kp_, v_, o_, f_) ==
    Only({
    [m |-> o.m, kp |-> kp, i0 |-> v.i, x |-> o.i, y |-> f.y + 1,
     cnt |-> f.cnt - 1, d |-> f.d + p.dst_step]
    : kp \in {kp_}, v \in {v_}, o \in {o_}, f \in {f_}})

GenRowBody(p, rows, kp_, nz, v_, f_) ==
    Only({
    GenRowFrame(p, kp, v, GenRowTail(p, rows, kp, nz, v, f), f)
    : kp \in {kp_}, v \in {v_}, f \in {f_}})

GenRowTaps(p, rows, kp_, nz, f_) ==
    Only({
    GenRowBody(p, rows, kp, nz,
               MorphVecApply(p, rows, kp, nz, f.m, f.d, p.width * p.ch), f)
    : kp \in {kp_}, f \in {f_}})

\* MorphFilter::apply, one iteration of while count > 0
GenRowStep(p, pt, rows, f_) ==
    Only({
    GenRowTaps(p, rows, TapPointers(p, pt, f.y), Len(pt), f)
    : f \in {f_}})

\* the loop of MorphFilter::apply run to its end
RECURSIVE GenRun(_, _, _, _)
GenRun(p, pt, rows, f_) ==
    Only({
    IF f.cnt > 0 THEN GenRun(p, pt, rows, GenRowStep(p, pt, rows, f)) ELSE f
    : f \in {f_}})

\* MorphFilter::apply as one step: the destination it leaves
MorphFilterApply(p, pt, rows, m_, n) ==
    Only({
    GenRun(p, pt, rows, [m |-> m, kp |-> <<>>, i0 |-> 0, x |-> 0, y |-> 0,
                         cnt |-> n, d |-> 0]).m
    : m \in {m_}})

\* ---- construction and one call, one action per output row
MaxKDim   == 3     \* declared width and height of a mask, construction alone
MaxKLen   == 6     \* cells of a mask, construction alone
MaxGenWidth == 2   \* pixels per output row of the generic filter
MaxGenCount == 2   \* output rows of one call of the generic filter

\* channel counts of the generic filter: grey and three-channel images
GenChannels == {1, 3}

Masks(n) == [1..n -> BOOLEAN]

\* a mask and its declared size; the slice may be shorter or longer than
\* width * height
KernelSizes == {Size(w, h) : w \in 0..MaxKDim, h \in 0..MaxKDim}

\* the masks the filter is applied with: every mask of the declared size, for
\* the sizes up to 2 x 2
TapSizes == {Size(1, 1), Size(2, 1), Size(1, 2), Size(2, 2)}
TapKernels ==
    UNION {{[kn |-> kn, sz |-> sz] : kn \in Masks(sz.width * sz.height)} :
           sz \in TapSizes}

Anchors(sz) == {Point(0, 0), Point(sz.width \div 2, sz.height \div 2)}

InitGen ==
    /\ opr \in Operators /\ lanes \in LaneCounts
    /\ ksize = Size(0, 0) /\ anchor = Point(0, 0)
    /\ width = 0 /\ ch = 1 /\ count = 0 /\ dst_step = 0
    /\ src = <<>> /\ dst = <<>> /\ wlog = <<>>
    /\ pc = "new" /\ x0 = 0 /\ x = 0 /\ y = 0 /\ cnt = 0 /\ d = 0 /\ k = 0
    /\ kernel = <<>> /\ coords = <<>> /\ ptrs = <<>>
    /\ mid = <<>> /\ dst2 = <<>>
    /\ anchor2 = 0 /\ coords2 = <<>> /\ calls = 0

\* MorphFilter::new(kernel, ksize, anchor)
MorphFilterNew(kn, sz, an) ==
    /\ pc = "new"
    /\ kernel' = kn /\ ksize' = sz /\ anchor' = an
    /\ LET r == process_2d_kernel(kn, sz)
       IN  IF r.ok
           THEN /\ coords' = r.coords
                /\ ptrs' = [t \in 1..Len(r.coords) |-> Null]
                /\ pc' = "gen_idle"
           ELSE /\ pc' = "panicked"
                /\ UNCHANGED <<coords, ptrs>>
    /\ UNCHANGED <<opr, lanes, width, ch, count, dst_step, src, dst, wlog,
                   x0, x, y, cnt, d, k, sepvars, calls>>

\* construction from any mask
FilterNew ==
    \E n \in 0..MaxKLen : \E kn \in Masks(n) : \E sz \in KernelSizes :
      \E an \in Anchors(sz) :
        MorphFilterNew(kn, sz, an)

SpecNew == InitGen /\ [][FilterNew]_vars

\* the 3 x 3 all-true structuring element
BoxKernel == [kn |-> [i \in 1..9 |-> TRUE], sz |-> Size(3, 3)]

\* construction of a filter that is going to be applied
GenNew ==
    \E kk \in TapKernels \cup {BoxKernel} :
        MorphFilterNew(kk.kn, kk.sz,
                       Point(kk.sz.width \div 2, kk.sz.height \div 2))

\* the largest x and y of the taps: the source the call needs has
\* count + MaxTapY rows of (width + MaxTapX) * ch elements
MaxTapX == Reduce("max", {coords[t].x : t \in 1..Len(coords)})
MaxTapY == Reduce("max", {coords[t].y : t \in 1..Len(coords)})

\* the 5 x 5 ramp image value = y * 5 + x with one replicated border pixel on
\* each side: 7 rows of 7 elements
Clamp(i) == IF i < 0 THEN 0 ELSE IF i > 4 THEN 4 ELSE i
BorderedRamp ==
    [r \in 0..6 |-> [c \in 0..6 |-> Clamp(r - 1) * 5 + Clamp(c - 1)]]

\* MorphFilter::apply is entered with width w, ch c, count n, dst_step
\* w * c + pad and the source rows img: nz, dst_off = 0, src_off = 0
GenEnter(w, c, n, pad, img) ==
    /\ width' = w /\ ch' = c /\ count' = n /\ dst_step' = w * c + pad
    /\ src' = img
    /\ dst' = NewMem((n + 1) * (w * c + pad)).v
    /\ wlog' = NewMem((n + 1) * (w * c + pad)).w
    /\ cnt' = n
    /\ y' = 0 /\ d' = 0
    /\ calls' = calls + 1
    /\ pc' = "gen_rows"
    /\ UNCHANGED <<opr, lanes, ksize, anchor, genvars, sepvars, x0, x, k>>

\* a call of a filter of up to 2 x 2 cells
GenCall ==
    /\ pc = "gen_idle"
    /\ ksize \in TapSizes
    /\ \E w \in 0..MaxGenWidth, c \in GenChannels, n \in 0..MaxGenCount,
          pad \in Pads :
         \E img \in Images(n + MaxTapY, (w + MaxTapX) * c, opr) :
           GenEnter(w, c, n, pad, img)

\* the call of the 3 x 3 filter on the 7 row pointers of the bordered ramp:
\* count = 5, width = 5, ch = 1
GenCallBordered ==
    /\ pc = "gen_idle"
    /\ ksize = Size(3, 3)
    /\ \E pad \in Pads : GenEnter(5, 1, 5, pad, BorderedRamp)

\* one iteration of while count > 0
GenRow ==
    /\ pc = "gen_rows"
    /\ cnt > 0
    /\ \E f \in {GenRowStep(P, coords, src,
                           [m |-> Mem, kp |-> ptrs, i0 |-> x0, x |-> x,
                            y |-> y, cnt |-> cnt, d |-> d])} :
           /\ dst' = f.m.v /\ wlog' = f.m.w /\ ptrs' = f.kp
           /\ x0' = f.i0 /\ x' = f.x /\ y' = f.y /\ cnt' = f.cnt /\ d' = f.d
    /\ UNCHANGED <<argvars, kernel, coords, sepvars, pc, k>>

GenReturn ==
    /\ pc = "gen_rows"
    /\ cnt = 0
    /\ pc' = "gen_done"
    /\ UNCHANGED <<argvars, genvars, sepvars, dst, wlog, x0, x, y, cnt, d, k>>

NextGen == GenNew \/ GenCall \/ GenCallBordered \/ GenRow \/ GenReturn

SpecGen == InitGen /\ [][NextGen]_vars

\* ---- several calls on one filter instance: the scratch array self.ptrs
\* keeps the addresses of the last output row of the call before
MaxCalls == 2        \* calls on one instance
MaxReuseWidth == 1   \* pixels per output row
MaxReuseCount == 2   \* output rows of one call

RampImages(R, C) == {Ramp(R, C, 1, 2), Ramp(R, C, 3, 1)}

\* MorphFilter::apply is entered on an instance that is idle: just built, or
\* returned from an earlier call
ReuseCall ==
    /\ pc \in {"gen_idle", "gen_done"}
    /\ calls < MaxCalls
    /\ \E w \in 1..MaxReuseWidth, c \in GenChannels, n \in 1..MaxReuseCount :
         \E img \in RampImages(n + MaxTapY, (w + MaxTapX) * c) :
           GenEnter(w, c, n, 0, img)

NextReuse == GenNew \/ ReuseCall \/ GenRow \/ GenReturn

SpecReuse == InitGen /\ [][NextReuse]_vars

\* the elements the taps of the coordinate list select for position i of
\* output row r
TapValues(r, i) ==
    {src[r + coords[t].y][coords[t].x * ch + i] : t \in 1..Len(coords)}

\* C5: after MorphFilter::apply every position of the count output rows holds
\* the reduction, over all taps of the coordinate list, of the elements the
\* taps select
GenericMatchesReference ==
    pc = "gen_done" =>
        \A r \in 0..(count - 1) : \A i \in 0..(width * ch - 1) :
            dst[r * dst_step + i] = Reduce(opr, TapValues(r, i))

\* ================================================= separable composition
\* A kw x kh all-true structuring element applied two ways to the same source:
\* the row filter (ksize = kw) on each of the count + kh - 1 source rows and
\* the column filter (ksize = kh) over the rows it wrote; and the generic
\* filter built from the full mask.
MaxSepCount == 5   \* output rows of the composition

AllTrue(sz) == [i \in 1..(sz.width * sz.height) |-> TRUE]

InitSep ==
    \E op \in Operators, ln \in LaneCounts, sz \in TapSizes,
       w \in 0..MaxGenWidth, c \in GenChannels, n \in 0..MaxSepCount :
      \E img \in Images(n + sz.height - 1, (w + sz.width - 1) * c, op) :
        /\ opr = op /\ lanes = ln /\ ksize = sz
        /\ anchor = Point(sz.width \div 2, sz.height \div 2)
        /\ width = w /\ ch = c /\ count = n /\ dst_step = w * c
        /\ src = img
        /\ dst = NewMem(n * w * c).v /\ wlog = NewMem(n * w * c).w
        /\ pc = "sep_rows" /\ x0 = 0 /\ x = 0 /\ y = 0 /\ cnt = 0 /\ d = 0
        /\ k = 0
        /\ kernel = AllTrue(sz)
        /\ coords = process_2d_kernel(AllTrue(sz), sz).coords
        /\ ptrs = [t \in 1..(sz.width * sz.height) |-> Null]
        /\ mid = <<>> /\ dst2 = NewMem(n * w * c).v
        /\ anchor2 = 0 /\ coords2 = <<>> /\ calls = 0

\* MorphRowFilter::apply with ksize = kw on source row y, into row y of mid
SepRow ==
    /\ pc = "sep_rows"
    /\ y < count + ksize.height - 1
    /\ LET m == MorphRowFilterApply([P EXCEPT !.ksize = ksize.width], src[y],
                                    NewMem(width * ch))
       IN  mid' = [r \in 0..y |-> IF r = y THEN m.v ELSE mid[r]]
    /\ y' = y + 1
    /\ UNCHANGED <<argvars, genvars, twinvars, dst, wlog, dst2, pc, x0, x, cnt,
                   d, k>>

\* MorphColumnFilter::apply with ksize = kh over the rows of mid
SepColumn ==
    /\ pc = "sep_rows"
    /\ y >= count + ksize.height - 1
    /\ LET m == MorphColumnFilterApply(
                    [P EXCEPT !.ksize = ksize.height, !.width = width * ch],
                    mid, Mem, count)
       IN  dst' = m.v /\ wlog' = m.w
    /\ pc' = "sep_generic"
    /\ UNCHANGED <<argvars, genvars, sepvars, x0, x, y, cnt, d, k>>

\* MorphFilter::apply of the filter built from the full mask, on the source
SepGeneric ==
    /\ pc = "sep_generic"
    /\ dst2' = MorphFilterApply(P, coords, src, [v |-> dst2, w |-> wlog],
                                count).v
    /\ pc' = "sep_done"
    /\ UNCHANGED <<argvars, genvars, twinvars, dst, wlog, mid, x0, x, y, cnt, d,
                   k>>

NextSep == SepRow \/ SepColumn \/ SepGeneric

SpecSep == InitSep /\ [][NextSep]_vars

\* ===================================================== anchors of 1-D filters
\* Two MorphRowFilter (MorphColumnFilter) instances built with the same ksize
\* and the anchors anchor and anchor2, applied to the same arguments.
MaxAnchorWidth == 5   \* elements per output row
MaxAnchorCount == 4   \* output rows of the column filter

\* MorphRowFilter::new(ksize, anchor) / MorphColumnFilter::new(ksize, anchor),
\* twice, with two different anchors inside the kernel
AnchorPairs ==
    {c \in [op : Operators, lanes : LaneCounts, ksize : 2..MaxKsize,
            anchor : 0..MaxKsize, anchor2 : 0..MaxKsize] :
        c.anchor < c.anchor2 /\ c.anchor2 < c.ksize}

InitAnchorRow ==
    \E c \in AnchorPairs, w \in 0..MaxAnchorWidth, cc \in GenChannels :
      \E img \in Images(1, (w + c.ksize - 1) * cc, c.op) :
        /\ opr = c.op /\ lanes = c.lanes /\ ksize = c.ksize
        /\ anchor = c.anchor /\ anchor2 = c.anchor2
        /\ width = w /\ ch = cc /\ count = 1 /\ dst_step = w * cc
        /\ src = img
        /\ dst = NewMem(w * cc).v /\ wlog = NewMem(w * cc).w
        /\ dst2 = NewMem(w * cc).v
        /\ pc = "arow_first"

InitAnchorCol ==
    \E c \in AnchorPairs, w \in 0..MaxAnchorWidth, n \in 0..MaxAnchorCount :
      \E img \in Images(n + c.ksize - 1, w, c.op) :
        /\ opr = c.op /\ lanes = c.lanes /\ ksize = c.ksize
        /\ anchor = c.anchor /\ anchor2 = c.anchor2
        /\ width = w /\ ch = 1 /\ count = n /\ dst_step = w
        /\ src = img
        /\ dst = NewMem(n * w).v /\ wlog = NewMem(n * w).w
        /\ dst2 = NewMem(n * w).v
        /\ pc = "acol_first"

InitAnchor ==
    /\ InitAnchorRow \/ InitAnchorCol
    /\ x0 = 0 /\ x = 0 /\ y = 0 /\ cnt = 0 /\ d = 0 /\ k = 0
    /\ kernel = <<>> /\ coords = <<>> /\ ptrs = <<>>
    /\ mid = <<>> /\ coords2 = <<>> /\ calls = 0

\* MorphRowFilter::apply of the instance built with anchor
AnchorRowFirst ==
    /\ pc = "arow_first"
    /\ LET m == MorphRowFilterApply(P, src[0], Mem)
       IN  dst' = m.v /\ wlog' = m.w
    /\ pc' = "arow_second"
    /\ UNCHANGED <<argvars, genvars, sepvars, x0, x, y, cnt, d, k>>

\* MorphRowFilter::apply of the instance built with anchor2
AnchorRowSecond ==
    /\ pc = "arow_second"
    /\ dst2' = MorphRowFilterApply([P EXCEPT !.anchor = anchor2], src[0],
                                   NewMem(width * ch)).v
    /\ pc' = "arow_done"
    /\ UNCHANGED <<argvars, genvars, twinvars, dst, wlog, mid, x0, x, y, cnt, d,
                   k>>

\* MorphColumnFilter::apply of the instance built with anchor
AnchorColFirst ==
    /\ pc = "acol_first"
    /\ LET m == MorphColumnFilterApply(P, src, Mem, count)
       IN  dst' = m.v /\ wlog' = m.w
    /\ pc' = "acol_second"
    /\ UNCHANGED <<argvars, genvars, sepvars, x0, x, y, cnt, d, k>>

\* MorphColumnFilter::apply of the instance built with anchor2
AnchorColSecond ==
    /\ pc = "acol_second"
    /\ dst2' = MorphColumnFilterApply([P EXCEPT !.anchor = anchor2], src,
                                      NewMem(count * width), count).v
    /\ pc' = "acol_done"
    /\ UNCHANGED <<argvars, genvars, twinvars, dst, wlog, mid, x0, x, y, cnt, d,
                   k>>

NextAnchor ==
    AnchorRowFirst \/ AnchorRowSecond \/ AnchorColFirst \/ AnchorColSecond

SpecAnchor == InitAnchor /\ [][NextAnchor]_vars

\* ================================================ anchors of generic filters
\* Two MorphFilter instances built from the same mask with the anchors anchor
\* and anchor2, applied to the same arguments.  The source holds
\* kernel_height - 1 rows and kernel_width - 1 pixels per row more than the
\* taps of the mask need.
AnchorPoints(sz) ==
    {Point(a, b) : a \in 0..(sz.width - 1), b \in 0..(sz.height - 1)}

\* an order of the points, to take each pair of anchors once
PointBefore(a, b) == a.y < b.y \/ (a.y = b.y /\ a.x < b.x)

InitGenAnchor ==
    \E op \in Operators, ln \in LaneCounts, kk \in TapKernels,
       w \in 1..MaxGenWidth, c \in GenChannels, n \in {MaxGenCount} :
      \E a1 \in AnchorPoints(kk.sz), a2 \in AnchorPoints(kk.sz) :
        \E img \in Images(n + 2 * (kk.sz.height - 1),
                          (w + 2 * (kk.sz.width - 1)) * c, op) :
          /\ PointBefore(a1, a2)
          /\ opr = op /\ lanes = ln /\ ksize = kk.sz
          /\ anchor = a1 /\ anchor2 = a2
          /\ width = w /\ ch = c /\ count = n /\ dst_step = w * c
          /\ src = img
          /\ dst = NewMem(n * w * c).v /\ wlog = NewMem(n * w * c).w
          /\ dst2 = NewMem(n * w * c).v
          /\ kernel = kk.kn
          /\ coords = process_2d_kernel(kk.kn, kk.sz).coords
          /\ coords2 = process_2d_kernel(kk.kn, kk.sz).coords
          /\ ptrs = [t \in 1..Len(coords) |-> Null]
          /\ pc = "ganc_first"
          /\ x0 = 0 /\ x = 0 /\ y = 0 /\ cnt = 0 /\ d = 0 /\ k = 0
          /\ mid = <<>> /\ calls = 0

\* MorphFilter::apply of the instance built with anchor
GenAnchorFirst ==
    /\ pc = "ganc_first"
    /\ LET m == MorphFilterApply(P, coords, src, Mem, count)
       IN  dst' = m.v /\ wlog' = m.w
    /\ pc' = "ganc_second"
    /\ UNCHANGED <<argvars, genvars, sepvars, x0, x, y, cnt, d, k>>

\* MorphFilter::apply of the instance built with anchor2
GenAnchorSecond ==
    /\ pc = "ganc_second"
    /\ dst2' = MorphFilterApply([P EXCEPT !.anchor = anchor2], coords2, src,
                                NewMem(count * width * ch), count).v
    /\ pc' = "ganc_done"
    /\ UNCHANGED <<argvars, genvars, twinvars, dst, wlog, mid, x0, x, y, cnt, d,
                   k>>

NextGenAnchor == GenAnchorFirst \/ GenAnchorSecond

SpecGenAnchor == InitGenAnchor /\ [][NextGenAnchor]_vars

\* ======================================================= order of the taps
\* MorphFilter::apply of two filter instances on the same arguments: one with
\* the tap list process_2d_kernel built, one with a permutation of it.
MaxPermWidth == 2   \* pixels per output row

TapOrders(n) == {f \in [1..n -> 1..n] : \A a, b \in 1..n : f[a] = f[b] => a = b}

Permuted(pt, f) == [t \in 1..Len(pt) |-> pt[f[t]]]

InitPerm ==
    \E op \in Operators, ln \in LaneCounts, kk \in TapKernels,
       w \in 0..MaxPermWidth, c \in GenChannels :
      LET pt == process_2d_kernel(kk.kn, kk.sz).coords
          mx == Reduce("max", {pt[t].x : t \in 1..Len(pt)})
          my == Reduce("max", {pt[t].y : t \in 1..Len(pt)})
      IN  \E f \in TapOrders(Len(pt)) :
            \E img \in Images(1 + my, (w + mx) * c, op) :
              /\ opr = op /\ lanes = ln /\ ksize = kk.sz
              /\ anchor = Point(kk.sz.width \div 2, kk.sz.height \div 2)
              /\ width = w /\ ch = c /\ count = 1 /\ dst_step = w * c
              /\ src = img
              /\ dst = NewMem(w * c).v /\ wlog = NewMem(w * c).w
              /\ pc = "perm_first" /\ x0 = 0 /\ x = 0 /\ y = 0 /\ cnt = 0
              /\ d = 0 /\ k = 0
              /\ kernel = kk.kn /\ coords = pt
              /\ ptrs = [t \in 1..Len(pt) |-> Null]
              /\ mid = <<>> /\ dst2 = NewMem(w * c).v
              /\ anchor2 = anchor /\ coords2 = Permuted(pt, f) /\ calls = 0

\* MorphFilter::apply of the filter with the tap list as built
PermFirst ==
    /\ pc = "perm_first"
    /\ LET m == MorphFilterApply(P, coords, src, Mem, count)
       IN  dst' = m.v /\ wlog' = m.w
    /\ pc' = "perm_second"
    /\ UNCHANGED <<argvars, genvars, sepvars, x0, x, y, cnt, d, k>>

\* MorphFilter::apply of the filter with the permuted tap list
PermSecond ==
    /\ pc = "perm_second"
    /\ dst2' = MorphFilterApply(P, coords2, src, NewMem(width * ch), count).v
    /\ pc' = "perm_done"
    /\ UNCHANGED <<argvars, genvars, twinvars, dst, wlog, mid, x0, x, y, cnt, d,
                   k>>

NextPerm == PermFirst \/ PermSecond

SpecPerm == InitPerm /\ [][NextPerm]_vars

\* ==================================================== operators, both forms
\* The vector form of the operator applied to two vectors, and the scalar form
\* applied to the same operands lane by lane.  The vectors hold the pair
\* (a, b) in one lane and a background pair in the others.
OperandVector(n, lane, v, bg) == [l \in 0..(n - 1) |-> IF l = lane THEN v ELSE bg]

InitOp ==
    \E op \in Operators, ln \in LaneCounts, a \in Values, b \in Values,
       bga \in {0, MaxVal}, bgb \in {0, MaxVal} :
      \E lane \in 0..(ln - 1) :
        /\ opr = op /\ lanes = ln /\ ksize = 1 /\ anchor = 0
        /\ width = ln /\ ch = 1 /\ count = 1 /\ dst_step = ln
        /\ src = [r \in 0..1 |-> IF r = 0 THEN OperandVector(ln, lane, a, bga)
                                          ELSE OperandVector(ln, lane, b, bgb)]
        /\ dst = NewMem(ln).v /\ wlog = NewMem(ln).w
        /\ pc = "op_entry" /\ x0 = 0 /\ x = 0 /\ y = 0 /\ cnt = 0 /\ d = 0
        /\ k = 0
        /\ kernel = <<>> /\ coords = <<>> /\ ptrs = <<>>
        /\ mid = <<>> /\ dst2 = NewMem(ln).v
        /\ anchor2 = 0 /\ coords2 = <<>> /\ calls = 0

\* <MinOp / MaxOp as VecMorphOperator>::apply(simd, a, b), stored to dst
OpVector ==
    /\ pc = "op_entry"
    /\ LET m == VStore(Mem, 0, VecApply(opr, src[0], src[1]))
       IN  dst' = m.v /\ wlog' = m.w
    /\ pc' = "op_lanes"
    /\ UNCHANGED <<argvars, genvars, sepvars, x0, x, y, cnt, d, k>>

\* <MinOp / MaxOp as MorphOperator>::apply(a, b) on the operands of lane x
OpScalar ==
    /\ pc = "op_lanes"
    /\ x < lanes
    /\ dst2' = [dst2 EXCEPT ![x] = ScalarApply(opr, src[0][x], src[1][x])]
    /\ x' = x + 1
    /\ UNCHANGED <<argvars, genvars, twinvars, mid, dst, wlog, pc, x0, y, cnt, d,
                   k>>

OpReturn ==
    /\ pc = "op_lanes"
    /\ x >= lanes
    /\ pc' = "op_done"
    /\ UNCHANGED <<argvars, genvars, sepvars, dst, wlog, x0, x, y, cnt, d, k>>

NextOp == OpVector \/ OpScalar \/ OpReturn

SpecOp == InitOp /\ [][NextOp]_vars

\* ------------------------------------------------------------------------
\* ---- the three apply methods run to completion: a call is synchronous and
\* single-threaded, so a loop iteration that can run does run.  No loop
\* condition reads an element, so the calls are run on one image per shape,
\* the ramp r + 2 * c (and the bordered ramp of the 3 x 3 filter)
IsRamp ==
    \A r \in DOMAIN src : \A c \in DOMAIN src[r] :
        src[r][c] = (r + 2 * c) % (MaxVal + 1)

InitTerm == (InitRow \/ InitCol \/ InitGen) /\ IsRamp

TermGenCall == (GenCall /\ IsRamp') \/ GenCallBordered

CallStep == NextRow \/ NextCol \/ GenRow \/ GenReturn

NextTerm == CallStep \/ GenNew \/ TermGenCall

SpecTerm == InitTerm /\ [][NextTerm]_vars /\ WF_vars(CallStep)

Init == InitRow \/ InitRowBounds \/ InitCol \/ InitColBounds \/ InitGen \/ InitSep
        \/ InitOp \/ InitPerm \/ InitAnchor \/ InitGenAnchor

Next == NextRow \/ NextCol \/ FilterNew \/ NextGen \/ ReuseCall \/ NextSep
        \/ NextOp \/ NextPerm \/ NextAnchor \/ NextGenAnchor

Spec == Init /\ [][Next]_vars

\* ================================================================== claims
\* C2: after MorphColumnFilter::apply no cell of the count output rows is
\* left unwritten: every dst[r * dst_step + c] with r < count and c < width
\* has been stored to, whatever the width, lane count, ksize and count
ColumnFullyWritten ==
    pc = "col_done" =>
        \A r \in 0..(count - 1) : \A c \in 0..(width - 1) :
            wlog[r * dst_step + c] # {}

\* C3 (witness): a row of two channels and three taps that the vector phase
\* and the scalar tail both worked on
RowBothPhasesDone ==
    /\ pc = "row_done" /\ ksize = 3 /\ ch = 2
    /\ x0 > 0 /\ x0 < width * ch
    /\ \A q \in 0..(width * ch - 1) : dst[q] = RowRef(q)
    /\ \E q \in 0..(width * ch - 1) : dst[q] # src[0][q]

\* C4: with ksize == 1 the call copies src[..width * ch] to dst and returns
\* from its entry, without the vector phase and the scalar phase running
RowKsizeOneCopies ==
    [][(pc = "row_entry" /\ ksize = 1) =>
          /\ pc' = "row_done"
          /\ \A q \in 0..(width * ch - 1) : dst'[q] = src[0][q]
          /\ x0' = x0 /\ x' = x /\ k' = k]_vars

\* C4 (witness): a copied row of two channels, and the empty copy of ch == 0
RowCopied ==
    /\ pc = "row_done" /\ ksize = 1
    /\ \/ /\ ch = 2 /\ width >= 2
          /\ \A q \in 0..(width * ch - 1) : wlog[q] = {src[0][q]}
          /\ \E q \in 0..(width * ch - 1) : src[0][q] # 0
       \/ ch = 0 /\ width >= 1

\* C5 (witness): two output rows of a filter of three or more taps, part of
\* each row done by MorphVec::apply and part by the scalar tail
GenericBothPhasesDone ==
    /\ pc = "gen_done" /\ Len(coords) >= 3 /\ count = 2
    /\ x0 > 0 /\ x0 < width * ch
    /\ \E i \in 0..(width * ch - 1) : dst[dst_step + i] # src[1][i]

\* C6: for an all-true kw x kh element the row filter followed by the column
\* filter leaves in every output row what the generic filter built from the
\* full element leaves
SeparableEqualsGeneric ==
    pc = "sep_done" =>
        \A r \in 0..(count - 1) : \A i \in 0..(width * ch - 1) :
            dst[r * dst_step + i] = dst2[r * dst_step + i]

\* the active cells of a mask of exactly width * height cells
ActiveCells ==
    {pt \in {Point(cx, cy) : cx \in 0..(ksize.width - 1),
                             cy \in 0..(ksize.height - 1)} :
        kernel[pt.y * ksize.width + pt.x + 1]}

\* C7: for a mask of exactly width * height cells with an active cell the tap
\* list holds the positions of exactly the active cells, each once, strictly
\* increasing in (y, x) order, and is as long as there are active cells
KernelListsActiveCells ==
    (/\ pc = "gen_idle"
     /\ Len(kernel) = ksize.width * ksize.height
     /\ CountActive(kernel) >= 1) =>
        /\ Len(coords) = CountActive(kernel)
        /\ {coords[t] : t \in 1..Len(coords)} = ActiveCells
        /\ \A t \in 1..(Len(coords) - 1) :
             \/ coords[t].y < coords[t + 1].y
             \/ coords[t].y = coords[t + 1].y /\ coords[t].x < coords[t + 1].x

\* C7 (witness): a 3 x 2 mask with active cells in both rows
KernelTwoRowsListed ==
    /\ pc = "gen_idle"
    /\ ksize = Size(3, 2) /\ Len(kernel) = 6
    /\ kernel[3] /\ kernel[4] /\ kernel[6] /\ ~kernel[1]
    /\ coords = <<Point(2, 0), Point(0, 1), Point(2, 1)>>

\* C8: an all-false mask gives the tap list of the single entry (0, 0), and
\* every constructed filter has a tap list and a scratch array of the same
\* length >= 1
KernelNeverEmpty ==
    pc = "gen_idle" =>
        /\ Len(coords) >= 1
        /\ Len(ptrs) = Len(coords)
        /\ CountActive(kernel) = 0 => coords = <<Point(0, 0)>>

\* C8 (witness): a filter built from an all-false 2 x 3 mask
KernelAllFalseBuilt ==
    /\ pc = "gen_idle"
    /\ ksize = Size(2, 3) /\ Len(kernel) = 6 /\ CountActive(kernel) = 0
    /\ coords = <<Point(0, 0)>> /\ ptrs = <<Null>>

\* C9: with a single tap (tx, ty) every output position is a copy of element
\* tx * ch + i of source row r + ty, the only value stored there; for the
\* all-false mask the output rows are the source rows
SingleTapCopies ==
    (pc = "gen_done" /\ Len(coords) = 1) =>
        /\ \A r \in 0..(count - 1) : \A i \in 0..(width * ch - 1) :
             /\ dst[r * dst_step + i]
                  = src[r + coords[1].y][coords[1].x * ch + i]
             /\ wlog[r * dst_step + i]
                  = {src[r + coords[1].y][coords[1].x * ch + i]}
        /\ CountActive(kernel) = 0 =>
             \A r \in 0..(count - 1) : \A i \in 0..(width * ch - 1) :
                 dst[r * dst_step + i] = src[r][i]

\* C9 (witness): two rows of two channels copied through the single tap (1, 1)
SingleTapCopied ==
    /\ pc = "gen_done" /\ coords = <<Point(1, 1)>>
    /\ count = 2 /\ ch = 3 /\ width = 2
    /\ \E i \in 0..3 : dst[dst_step + i] # 0 /\ dst[dst_step + i] # src[1][i]

\* the row as the scalar phase alone computes it (the loops of
\* MorphRowFilter::apply entered with i0 = 0)
ScalarRow == RowChannels(P, src[0], NewMem(width * ch + 1), 0, 0).v

\* C10: when width * ch is not a multiple of the lane count (ch >= 1,
\* ksize >= 2) every position of the row is written, no position receives two
\* different values, and from the vector/scalar boundary on the values are
\* those of the purely scalar computation
RowTailMatchesScalar ==
    (/\ pc = "row_done" /\ ch >= 1 /\ ksize >= 2
     /\ (width * ch) % lanes # 0) =>
        \A q \in 0..(width * ch - 1) :
            /\ Cardinality(wlog[q]) = 1
            /\ q >= x0 => dst[q] = ScalarRow[q]

\* C10 (witness): a row one element longer than a vector, the vector phase
\* ending inside it
RowOneMoreThanLanes ==
    /\ pc = "row_done" /\ ksize >= 2 /\ ch >= 1
    /\ lanes > 1 /\ width * ch = lanes + 1
    /\ x0 > 0 /\ x0 < width * ch
    /\ \E q \in x0..(width * ch - 1) : wlog[q] # {0}

\* C11: in both phases of the column filter the source row index plus the
\* remaining row counter is the original count and the destination offset is
\* y * dst_step at every loop iteration; the counter never goes below zero
\* (it is decremented by 2 only while it is greater than 1), each phase ends
\* with the counter at 0, and exactly count rows have been stepped over
ColumnRowsInLockstep ==
    /\ pc \in {"col_vec", "col_scalar", "col_done"} =>
          /\ cnt >= 0
          /\ y + cnt = count
          /\ d = y * dst_step
    /\ (pc = "col_vec" /\ ~(cnt > 1 /\ ksize > 1) /\ ~(cnt > 0)) =>
          cnt = 0 /\ y = count
    /\ pc = "col_done" => cnt = 0 /\ y = count /\ d = count * dst_step

\* C11 (witness): five rows of a two-tap kernel done, two pairs and a single
\* row in each phase
ColumnFiveRowsDone ==
    /\ pc = "col_done" /\ count = 5 /\ ksize = 2 /\ width >= 1
    /\ y = 5 /\ cnt = 0 /\ d = 5 * dst_step /\ dst_step > width

TapOrderIrrelevant ==
    pc = "perm_done" => dst2 = dst

\* C13 (witness): the four taps of the all-true 2 x 2 element in reverse
\* order, on a row of six elements done by a vector group and the scalar tail
TapsReversedApplied ==
    /\ pc = "perm_done" /\ Len(coords) = 4 /\ lanes = 4
    /\ width * ch = 6
    /\ coords2 = <<coords[4], coords[3], coords[2], coords[1]>>
    /\ \E i \in 0..5 : dst[i] # src[0][i]
    /\ dst2 = dst

\* C14: the Max row filter with ksize = 3, width = 6, ch = 1 on the padded
\* row 5 5 1 4 2 8 3 3 writes 5 5 4 8 8 8 to dst[0..6], for every lane count
PaddedRowMaxima ==
    (/\ pc = "row_done" /\ opr = "max" /\ ksize = 3 /\ width = 6 /\ ch = 1
     /\ src = PaddedRow) =>
        \A i \in 0..5 : dst[i] = <<5, 5, 4, 8, 8, 8>>[i + 1]

\* C14 (witness): the row done with 16 lanes, all of it by the scalar tail
PaddedRowDoneByScalarTail ==
    /\ pc = "row_done" /\ opr = "max" /\ ksize = 3 /\ width = 6 /\ ch = 1
    /\ src = PaddedRow /\ lanes = 16 /\ x0 = 0
    /\ \A i \in 0..5 : wlog[i] = {<<5, 5, 4, 8, 8, 8>>[i + 1]}

\* C15: the Min filter of the 3 x 3 all-true element, applied with count = 5,
\* width = 5, ch = 1 to the 7 row pointers of the bordered 5 x 5 ramp, writes
\* 6 at the centre output pixel (row 2, column 2)
BoxMinCentreIsSix ==
    (/\ pc = "gen_done" /\ opr = "min" /\ ksize = Size(3, 3)
     /\ count = 5 /\ width = 5 /\ ch = 1 /\ src = BorderedRamp) =>
        dst[2 * dst_step + 2] = 6

\* C15 (witness): the call done with four lanes and a gap between the rows
BoxMinApplied ==
    /\ pc = "gen_done" /\ opr = "min" /\ ksize = Size(3, 3) /\ lanes = 4
    /\ Len(coords) = 9
    /\ count = 5 /\ width = 5 /\ ch = 1 /\ src = BorderedRamp
    /\ dst_step = 6 /\ wlog[2 * 6 + 2] = {6} /\ dst[4 * 6 + 4] = 18

\* C16: two row filters, and two column filters, built with the same ksize
\* and different anchors leave identical destinations on every input, and
\* whatever a filter stores at output position p (at row r, column c) is the
\* reduction of the window that starts at source position p (source row r)
AnchorIgnored ==
    /\ pc = "arow_done" =>
          /\ dst2 = dst
          /\ \A q \in 0..(width * ch - 1) : wlog[q] \subseteq {RowRef(q)}
    /\ pc = "acol_done" =>
          /\ dst2 = dst
          /\ \A r \in 0..(count - 1) : \A c \in 0..(width - 1) :
                wlog[r * dst_step + c] \subseteq {ColRef(r, c)}

\* C16 (witness): three-tap row filters with anchors 0 and 2 on three
\* channels, both applied, the row not a copy of the source
AnchorsZeroAndTwoApplied ==
    /\ pc = "arow_done" /\ ksize = 3 /\ anchor = 0 /\ anchor2 = 2
    /\ ch = 3 /\ width >= 2 /\ dst2 = dst
    /\ \E q \in 0..(width * ch - 1) : dst[q] # src[0][q]

\* C17: after construction ksize, anchor, the tap list and the length of the
\* scratch array never change; every iteration of MorphFilter::apply, in a
\* first or a later call, overwrites every scratch entry k with the address
\* (source row r + tap_k.y, offset tap_k.x * ch) and leaves in output row r
\* the reduction over the taps of this call's source, whatever the scratch
\* array held before
ScratchRepopulated ==
    [][/\ pc # "new" =>
             /\ ksize' = ksize /\ anchor' = anchor /\ coords' = coords
             /\ Len(ptrs') = Len(ptrs)
       /\ (pc = "gen_rows" /\ pc' = "gen_rows") =>
             /\ ptrs' = [t \in 1..Len(coords) |->
                           [row |-> y + coords[t].y, off |-> coords[t].x * ch]]
             /\ \A i \in 0..(width * ch - 1) :
                   dst'[d + i] = Reduce(opr, TapValues(y, i))]_vars

\* C17 (witness): the second call on an instance done, two rows of a
\* one-channel image: the scratch array holds the addresses of its last row
SecondCallDone ==
    /\ pc = "gen_done" /\ calls = 2 /\ Len(coords) >= 2 /\ count = 2
    /\ ch = 1 /\ coords[2].x = 1
    /\ ptrs[2] = [row |-> 1 + coords[2].y, off |-> 1]
    /\ \E i \in 0..(width * ch - 1) : dst[dst_step + i] # src[1][i]

\* the largest source index that went into the stored value v
SourceIndex(v) ==
    IF opr = "max" THEN v ELSE (width + ksize - 1) * ch + ch - 1 - v

\* C18: on buffers that hold what the precondition asks for (and here one
\* pixel more), MorphRowFilter::apply stores nothing at dst indices from
\* width * ch on, and every value it stores (every loaded element is folded
\* into a stored value) comes from src indices below (width + ksize - 1) * ch,
\* in the vector phase, its half-width step and the scalar tail
RowStaysInBounds ==
    pc \in {"row_scalar", "row_done"} =>
        \A i \in DOMAIN wlog :
            /\ i >= width * ch => wlog[i] = {}
            /\ \A v \in wlog[i] : SourceIndex(v) < (width + ksize - 1) * ch

\* C18 (witness): three channels, three taps, four lanes: a vector group and
\* the scalar tail, the last element the precondition asks for read
RowLastElementRead ==
    /\ pc = "row_done" /\ ch = 3 /\ ksize = 3 /\ lanes = 4 /\ width = 3
    /\ x0 > 0 /\ x0 < width * ch
    /\ \E i \in 0..(width * ch - 1) : \E v \in wlog[i] :
          SourceIndex(v) = (width + ksize - 1) * ch - 1

\* a call has been entered and has not returned
InCall == pc \in {"row_entry", "row_scalar", "col_vec", "col_scalar", "gen_rows"}

Returned == pc \in {"row_done", "col_done", "gen_done"}

\* an iteration of a loop over the rows takes rows off the counter, an
\* iteration of the loop over the channels moves to the next channel
LoopProgress ==
    /\ pc \in {"col_vec", "col_scalar", "gen_rows"} /\ pc' = pc =>
           cnt' < cnt /\ cnt' >= 0
    /\ pc = "row_scalar" /\ pc' = pc => k' > k /\ k' <= ch

\* C19: every call of MorphRowFilter::apply, MorphColumnFilter::apply and
\* MorphFilter::apply returns: every iteration of a loop over the rows
\* strictly decreases the row counter (the loop over the channels strictly
\* increases its index), and a call that was entered eventually returns
CallsTerminate == [][LoopProgress]_vars /\ (InCall ~> Returned)

\* C19 (witness): MorphFilter::apply returned after the most rows of the
\* widest three-channel image
LongestGenericCallReturned ==
    /\ pc = "gen_done" /\ count = MaxGenCount /\ width = MaxGenWidth /\ ch = 3
    /\ cnt = 0 /\ y = count /\ Len(coords) >= 2

\* the destination with everything from position i0 on as it was before the
\* call
ClearedFrom(i0) ==
    [v |-> [i \in DOMAIN dst |-> IF i >= i0 THEN 0 ELSE dst[i]],
     w |-> [i \in DOMAIN wlog |-> IF i >= i0 THEN {} ELSE wlog[i]]]

\* C20: when MorphRowVec::apply has returned i0 (x0 here; x is its cursor),
\* i0 is a multiple of ch in 0..width*ch, every position below i0 holds its
\* final reduction, the vector phase stored nothing from x on and x - i0 < ch,
\* and the scalar tail run from i0 stores the reduction at every position
\* from i0 on, whatever the vector phase left there
VectorBoundaryAligned ==
    pc = "row_scalar" /\ k = 0 =>
        /\ x0 % ch = 0 /\ 0 <= x0 /\ x0 <= width * ch
        /\ \A q \in 0..(x0 - 1) : dst[q] = RowRef(q)
        /\ x0 <= x /\ x - x0 < ch
        /\ \A i \in x..(width * ch) : wlog[i] = {}
        /\ \E t \in {RowChannels(P, src[0], ClearedFrom(x0), 0, x0)} :
              \A q \in x0..(width * ch - 1) :
                  t.w[q] # {} /\ t.v[q] = RowRef(q)

\* C20 (witness): three channels and a vector phase that stopped inside a
\* pixel: it stored positions i0 .. x - 1, which the scalar tail is to redo
VectorStoppedInsidePixel ==
    /\ pc = "row_scalar" /\ k = 0 /\ ch = 3 /\ ksize > 1
    /\ x0 > 0 /\ x > x0 /\ x < width * ch
    /\ \A i \in x0..(x - 1) : wlog[i] # {}

\* an iteration of a loop of MorphColumnVec::apply after the first leaves the
\* cursor where the iteration before it left it
SameBoundary ==
    pc = "col_vec" /\ pc' = "col_vec" /\ y > 0 => x' = x

\* what the vector phase has left when it has returned x0
VectorColumnsReduced ==
    /\ pc = "col_vec" => 0 <= x /\ x <= width
    /\ pc \in {"col_scalar", "col_done"} =>
          /\ 0 <= x0 /\ x0 <= width
          /\ \A r \in 0..(count - 1) : \A c \in 0..(x0 - 1) :
                dst[r * dst_step + c] = ColRef(r, c)

\* C21: MorphColumnVec::apply starts every pair of rows and every single row
\* at column 0 and leaves the same boundary x0 <= width after each of them;
\* once it has returned, every output row r < count holds at every column
\* below x0 the reduction of src[r + k][column] over k in 0..ksize-1, the
\* rows written in pairs included
ColumnVectorPhase == [][SameBoundary]_vars /\ []VectorColumnsReduced

\* C21 (witness): the vector phase has just returned from a pair of rows and
\* a single row of a three-tap kernel, with columns left for the scalar loops
ColumnVectorReturned ==
    /\ pc = "col_scalar" /\ y = 0 /\ cnt = count /\ count = 3 /\ ksize = 3
    /\ x0 > 0 /\ x0 < width
    /\ \A r \in 0..2 : wlog[r * dst_step] # {}

\* the index of the source element the stored value v is, its row and column
ColSourceIndex(v) ==
    IF opr = "max" THEN v ELSE (count + ksize) * (width + 1) - 1 - v

ColSourceRow(v) == ColSourceIndex(v) \div (width + 1)

ColSourceColumn(v) == ColSourceIndex(v) % (width + 1)

\* C22: MorphColumnFilter::apply (its vector phase included) stores only at
\* dst[r * dst_step + c] with r < count and c < width, so the gap cells of
\* every row and the cells from row count on keep their contents, and what
\* it stores comes from row pointers src[0 .. count + ksize - 2] at columns
\* below width
ColumnStaysInBounds ==
    \A i \in DOMAIN wlog :
        /\ (i \div dst_step >= count \/ i % dst_step >= width) =>
               wlog[i] = {} /\ dst[i] = 0
        /\ \A v \in wlog[i] :
               /\ ColSourceRow(v) <= count + ksize - 2
               /\ ColSourceColumn(v) < width
               /\ ColSourceColumn(v) = i % dst_step

\* C22 (witness): a call with dst_step > width done, three rows of a
\* three-tap kernel by both phases: the last row pointer asked for was read
\* and the last column written, the gap cell after it left alone
ColumnLastRowRead ==
    /\ pc = "col_done" /\ dst_step > width /\ count = 3 /\ ksize = 3
    /\ x0 > 0 /\ x0 < width
    /\ wlog[width - 1] # {} /\ wlog[width] = {}
    /\ \E i \in DOMAIN wlog : \E v \in wlog[i] :
          ColSourceRow(v) = count + ksize - 2

\* the statement of C23 as it stands: the tap list is made of the active
\* cells of the declared region alone, whatever the slice holds after it
KernelRegionOnly ==
    pc = "gen_idle" /\ Len(kernel) >= ksize.width * ksize.height =>
        IF ActiveCells = {} THEN coords = <<Point(0, 0)>>
        ELSE /\ Len(coords) = Cardinality(ActiveCells)
             /\ \A t \in 1..Len(coords) : coords[t] \in ActiveCells

\* C23 (amended): the length of the tap list is the number of active cells of
\* the whole slice (1 when there is none); its first entries are the active
\* cells of the declared width x height region in (y, x) order, and every
\* entry after them,
\* one for each active cell of the slice beyond the region, is the origin
\* (0, 0).  The statement as it stands holds for the slices with no active
\* cell beyond the region.
KernelListCountsWholeSlice ==
    pc = "gen_idle" =>
        /\ Len(kernel) >= ksize.width * ksize.height
        /\ Len(coords) = IF CountActive(kernel) = 0 THEN 1
                         ELSE CountActive(kernel)
        /\ Cardinality(ActiveCells) <= Len(coords)
        /\ {coords[t] : t \in 1..Cardinality(ActiveCells)} = ActiveCells
        /\ \A t \in 1..(Cardinality(ActiveCells) - 1) :
             \/ coords[t].y < coords[t + 1].y
             \/ coords[t].y = coords[t + 1].y /\ coords[t].x < coords[t + 1].x
        /\ \A t \in (Cardinality(ActiveCells) + 1)..Len(coords) :
               coords[t] = Point(0, 0)
        /\ CountActive(kernel) = Cardinality(ActiveCells) =>
               IF ActiveCells = {} THEN coords = <<Point(0, 0)>>
               ELSE /\ Len(coords) = Cardinality(ActiveCells)
                    /\ \A t \in 1..Len(coords) : coords[t] \in ActiveCells

\* C23 (witness): a 2 x 1 mask passed as a slice of three cells, the third
\* one active: the list has an entry more than the region has active cells
KernelLongSliceListed ==
    /\ pc = "gen_idle"
    /\ ksize = Size(2, 1) /\ kernel = <<FALSE, TRUE, TRUE>>
    /\ coords = <<Point(1, 0), Point(0, 0)>>

\* C24: the taps of the generic filter are the mask cells' own (x, y) indices:
\* what MorphFilter::apply stores at position i of output row r is the
\* reduction of the elements at offsets tx * ch + i of the source rows
\* r + ty, over the taps (tx, ty) of the list, 0 <= tx < kernel_width and
\* 0 <= ty < kernel_height, whatever the anchor; two instances built from
\* the same mask with different anchors leave identical destinations
GenericAnchorIgnored ==
    /\ pc \in {"ganc_first", "ganc_second", "ganc_done"} =>
          \A t \in 1..Len(coords) :
              /\ 0 <= coords[t].x /\ coords[t].x < ksize.width
              /\ 0 <= coords[t].y /\ coords[t].y < ksize.height
    /\ pc \in {"ganc_second", "ganc_done"} =>
          \A r \in 0..(count - 1) : \A i \in 0..(width * ch - 1) :
              wlog[r * dst_step + i] = {Reduce(opr, TapValues(r, i))}
    /\ pc = "ganc_done" => dst2 = dst

\* C24 (witness): 2 x 2 filters with the anchors (0, 0) and (1, 1) and at
\* least two taps, both applied to two rows, the output not a copy of the
\* source
GenericAnchorsApplied ==
    /\ pc = "ganc_done" /\ ksize = Size(2, 2)
    /\ anchor = Point(0, 0) /\ anchor2 = Point(1, 1)
    /\ Len(coords) >= 2 /\ count = 2 /\ width >= 1 /\ dst2 = dst
    /\ \E i \in 0..(width * ch - 1) : dst[dst_step + i] # src[1][i]

====
